---- MODULE Spec2Model ----
(***************************************************************************)
(* The episode ingestion pipeline of scripts/fetch-twitch-videos.cjs:      *)
(* paginated fetch of the channel's videos, date-range filter, thumbnail   *)
(* download with skip-if-exists, and create-or-update of one content file  *)
(* per Eastern civil date.                                                 *)
(*                                                                         *)
(* Text is modelled as a sequence of tokens.  A token is a run of          *)
(* characters that no regular expression or string operation of the script *)
(* ever splits ("title", "---", one digit, one quote, one dollar sign).    *)
(* A file is the sequence of its lines, i.e. its text split at "\n": a     *)
(* file ending in a newline has an empty last line.                        *)
(*                                                                         *)
(* A UTC instant is a whole number of hours since 2026-03-07T00:00:00Z,     *)
(* negative before it, within the year 2026.                               *)
(***************************************************************************)
EXTENDS Integers, Sequences, FiniteSets, TLC

(***************************************************************************)
(* Bounds of the model.                                                    *)
(***************************************************************************)
\* records the remote channel holds at most
MaxRecords == 3
\* records the remote API puts on one page at most (first=100, scaled down)
MaxPageSize == 2
\* invocations of the script in one behaviour
MaxRuns == 2
\* hours before and after each daylight-saving transition that the date/time
\* normaliser is exercised on
TimeSpan == 30
\* largest hour component of a duration the formatter is exercised on
MaxHours == 2

(***************************************************************************)
(* Text helpers.                                                           *)
(***************************************************************************)
Digits == <<"0", "1", "2", "3", "4", "5", "6", "7", "8", "9">>

\* String(n).padStart(2, '0') for 0 <= n <= 99
pad2(n) == <<Digits[(n \div 10) + 1], Digits[(n % 10) + 1]>>

\* UTF-16 code unit of the characters that occur in a YYYY-MM-DD string
CodeUnit(c) ==
  CASE c = "-" -> 45
    [] c = "0" -> 48 [] c = "1" -> 49 [] c = "2" -> 50 [] c = "3" -> 51
    [] c = "4" -> 52 [] c = "5" -> 53 [] c = "6" -> 54 [] c = "7" -> 55
    [] c = "8" -> 56 [] c = "9" -> 57

\* JavaScript's a < b on strings: lexicographic by code unit
RECURSIVE StrLess(_, _)
StrLess(a, b) ==
  IF b = <<>> THEN FALSE
  ELSE IF a = <<>> THEN TRUE
  ELSE IF CodeUnit(Head(a)) # CodeUnit(Head(b))
       THEN CodeUnit(Head(a)) < CodeUnit(Head(b))
       ELSE StrLess(Tail(a), Tail(b))

\* JavaScript's a <= b on strings
StrLeq(a, b) == a = b \/ StrLess(a, b)

(***************************************************************************)
(* Date/time normaliser.                                                   *)
(***************************************************************************)
\* 2026-03-08T07:00:00Z, the instant America/New_York goes from EST to EDT
DstStartHour == 31

\* 2026-11-01T06:00:00Z, the instant America/New_York goes back from EDT to EST
DstEndHour == 5742

\* The UTC offset, in hours, the time zone database gives for an instant
EasternOffsetHours(t) ==
  IF t >= DstStartHour /\ t < DstEndHour THEN -4 ELSE -5

\* Days of 2026 that precede each month (and the whole year, as entry 13)
CumDays == <<0, 31, 59, 90, 120, 151, 181, 212, 243, 273, 304, 334, 365>>

\* 2026-03-07, the day of instant 0, counted from 2026-01-01 as day 0
EpochDay == 65

DigitValue(c) == CHOOSE k \in 0..9 : Digits[k + 1] = c

\* The value of a two-digit field
Number2(field) == 10 * DigitValue(field[1]) + DigitValue(field[2])

\* The 'hour' part Intl.DateTimeFormat yields with hour12: false; some
\* implementations give "24" for midnight
IntlHour(h) == IF h = 0 THEN <<"2", "4">> ELSE pad2(h)

\* Mutant: the hour part is used as Intl gives it
NormaliseHourNone(hour) == hour

\* if (p.hour === '24') p.hour = '00'
NormaliseHour(hour) == IF hour = <<"2", "4">> THEN <<"0", "0">> ELSE hour

\* formatToParts of an instant of 2026 in the zone America/New_York
getEasternParts(t) ==
  LET wall == t + EasternOffsetHours(t)
      yday == EpochDay + (wall \div 24)
      m    == CHOOSE k \in 1..12 : CumDays[k] <= yday /\ yday < CumDays[k + 1]
      raw  == IntlHour(wall % 24)
  IN [year   |-> <<"2", "0", "2", "6">>,
      month  |-> pad2(m),
      day    |-> pad2(yday - CumDays[m] + 1),
      hour   |-> NormaliseHour(raw),
      minute |-> pad2(0),
      second |-> pad2(0)]

\* Mutant: the date is written day first
toEasternDateDayFirst(t) ==
  LET p == getEasternParts(t)
  IN p.day \o <<"-">> \o p.month \o <<"-">> \o p.year

toEasternDate(t) ==
  LET p == getEasternParts(t)
  IN p.year \o <<"-">> \o p.month \o <<"-">> \o p.day

\* new Date(`${year}-${month}-${day}T${hour}:${minute}:${second}Z`).getTime(),
\* in hours since instant 0
DateParseUtc(p) ==
  (CumDays[Number2(p.month)] + Number2(p.day) - 1 - EpochDay) * 24
    + Number2(p.hour)

toEasternDateTime(t) ==
  LET p == getEasternParts(t)
      easternWall == DateParseUtc(p)
      offsetMinutes == (easternWall - t) * 60
      sign == IF offsetMinutes >= 0 THEN "+" ELSE "-"
      absMin == IF offsetMinutes >= 0 THEN offsetMinutes ELSE -offsetMinutes
      oh == pad2(absMin \div 60)
      om == pad2(absMin % 60)
  IN p.year \o <<"-">> \o p.month \o <<"-">> \o p.day \o <<"T">>
       \o p.hour \o <<":">> \o p.minute \o <<":">> \o p.second
       \o <<sign>> \o oh \o <<":">> \o om

(***************************************************************************)
(* Duration formatter.                                                     *)
(***************************************************************************)
\* String(n) for a natural number
RECURSIVE NumberText(_)
NumberText(n) ==
  IF n < 10 THEN <<Digits[n + 1]>>
  ELSE NumberText(n \div 10) \o <<Digits[(n % 10) + 1]>>

\* parseInt(text, 10) of a run of digits
RECURSIVE ParseInt(_)
ParseInt(text) ==
  IF text = <<>> THEN 0
  ELSE 10 * ParseInt(SubSeq(text, 1, Len(text) - 1)) + DigitValue(text[Len(text)])

\* Mutant: nothing is padded
padStartNone(text) == text

\* text.padStart(2, '0') of a non-empty text
padStart2(text) == IF Len(text) < 2 THEN <<"0">> \o text ELSE text

\* \d
IsDigit(c) == \E k \in 1..10 : Digits[k] = c

\* (?:(\d+)u)? tried at position pos: the digits before the unit letter when
\* a run of digits followed by that letter stands there, else no capture and
\* nothing consumed
Component(text, pos, unit) ==
  LET end == CHOOSE e \in pos..(Len(text) + 1) :
               /\ \A k \in pos..(e - 1) : IsDigit(text[k])
               /\ e = Len(text) + 1 \/ ~IsDigit(text[e])
  IN IF end > pos /\ end <= Len(text) /\ text[end] = unit
     THEN [capture |-> SubSeq(text, pos, end - 1), next |-> end + 1]
     ELSE [capture |-> <<>>, next |-> pos]

\* Mutant: the hour segment is always written
parseDurationAlwaysHours(twitchDuration) ==
  LET h == Component(twitchDuration, 1, "h")
      m == Component(twitchDuration, h.next, "m")
      s == Component(twitchDuration, m.next, "s")
      hours == ParseInt(IF h.capture = <<>> THEN <<"0">> ELSE h.capture)
      minutes == ParseInt(IF m.capture = <<>> THEN <<"0">> ELSE m.capture)
      seconds == ParseInt(IF s.capture = <<>> THEN <<"0">> ELSE s.capture)
  IN NumberText(hours) \o <<":">> \o padStart2(NumberText(minutes))
       \o <<":">> \o padStart2(NumberText(seconds))

parseDuration(twitchDuration) ==
  LET h == Component(twitchDuration, 1, "h")
      m == Component(twitchDuration, h.next, "m")
      s == Component(twitchDuration, m.next, "s")
      hours == ParseInt(IF h.capture = <<>> THEN <<"0">> ELSE h.capture)
      minutes == ParseInt(IF m.capture = <<>> THEN <<"0">> ELSE m.capture)
      seconds == ParseInt(IF s.capture = <<>> THEN <<"0">> ELSE s.capture)
      mm == padStart2(NumberText(minutes))
      ss == padStart2(NumberText(seconds))
  IN IF hours > 0
     THEN NumberText(hours) \o <<":">> \o mm \o <<":">> \o ss
     ELSE NumberText(minutes) \o <<":">> \o ss

(***************************************************************************)
(* Front matter.                                                           *)
(***************************************************************************)
\* str.replace(/"/g, '\\"') wrapped in double quotes
RECURSIVE EscapeQuotes(_)
EscapeQuotes(str) ==
  IF str = <<>> THEN <<>>
  ELSE (IF Head(str) = "\"" THEN <<"\\", "\"">> ELSE <<Head(str)>>)
         \o EscapeQuotes(Tail(str))

yamlDoubleQuote(str) == <<"\"">> \o EscapeQuotes(str) \o <<"\"">>

\* The token for the grave accent character (U+0060)
Backtick == "U+0060"

\* A text that may hold newlines is the sequence of its lines; this is the
\* concatenation of two such texts
TextConcat(a, b) ==
  SubSeq(a, 1, Len(a) - 1) \o <<a[Len(a)] \o b[1]>> \o SubSeq(b, 2, Len(b))

\* String.prototype.replace with a string replacement: "$$" inserts "$",
\* "$&" the matched text, "$" with a grave accent the text before the match
\* and "$'" the text after it.  ("$1".."$99" stay as they are: the pattern has no group.)
RECURSIVE GetSubstitution(_, _, _, _)
GetSubstitution(replacement, matched, preceding, following) ==
  LET dollars == {k \in 1..Len(replacement) : replacement[k] = "$"}
  IN IF dollars = {} THEN <<replacement>>
     ELSE LET k == CHOOSE m \in dollars : \A j \in dollars : m <= j
              special == k < Len(replacement)
                           /\ replacement[k + 1] \in {"$", "&", Backtick, "'"}
              inserted == IF ~special THEN << <<"$">> >>
                          ELSE CASE replacement[k + 1] = "$" -> << <<"$">> >>
                                 [] replacement[k + 1] = "&" -> <<matched>>
                                 [] replacement[k + 1] = Backtick -> preceding
                                 [] replacement[k + 1] = "'" -> following
              tail == SubSeq(replacement, IF special THEN k + 2 ELSE k + 1,
                             Len(replacement))
          IN TextConcat(TextConcat(<<SubSeq(replacement, 1, k - 1)>>, inserted),
                        GetSubstitution(tail, matched, preceding, following))

\* /^key:.*$/m matches a line: the line begins with key and a colon
LineHasKey(ln, key) == Len(ln) >= 2 /\ ln[1] = key /\ ln[2] = ":"

setYamlField(yaml, key, value) ==
  LET line == <<key, ":", " ">> \o value
      hits == {k \in 1..Len(yaml) : LineHasKey(yaml[k], key)}
  IN IF hits # {}
     THEN LET first == CHOOSE k \in hits : \A j \in hits : k <= j
              head == SubSeq(yaml, 1, first - 1)
              rest == SubSeq(yaml, first + 1, Len(yaml))
          IN head
             \o GetSubstitution(line, yaml[first],
                                IF head = <<>> THEN << <<>> >> ELSE head \o << <<>> >>,
                                << <<>> >> \o rest)
             \o rest
     ELSE Append(yaml, line)

Delimiter == <<"---">>

createdContent(video) ==
  << Delimiter,
     <<"title", ":", " ">> \o yamlDoubleQuote(video.title),
     <<"date", ":", " ", "\"">> \o video.startedAtEastern \o <<"\"">>,
     <<"tags", ":", " ", "[\"claude-code\", \"ai\"]">>,
     <<"twitchUrl", ":", " ">> \o yamlDoubleQuote(video.url),
     <<"thumbnail", ":", " ">> \o video.localThumbnail,
     Delimiter,
     <<>>,
     <<"Show notes coming soon!">>,
     <<>> >>

\* original.match(/^---\n([\s\S]*?)\n---(\n[\s\S]*)?$/): the closing
\* delimiter is the first line from the third on that is exactly "---"
ClosingLines(original) ==
  IF Len(original) >= 3 /\ original[1] = Delimiter
  THEN {k \in 3..Len(original) : original[k] = Delimiter}
  ELSE {}

FrontmatterMatches(original) == ClosingLines(original) # {}

ClosingLine(original) ==
  CHOOSE k \in ClosingLines(original) : \A j \in ClosingLines(original) : k <= j

\* match[1]
MatchYaml(original) == SubSeq(original, 2, ClosingLine(original) - 1)

\* match[2] ?? '\n', as the lines that follow the closing delimiter
MatchBody(original) ==
  IF ClosingLine(original) < Len(original)
  THEN SubSeq(original, ClosingLine(original) + 1, Len(original))
  ELSE << <<>> >>

\* The text updateEpisodeFile compares with the original and may write
updatedContent(original, video) ==
  LET y0 == MatchYaml(original)
      y1 == setYamlField(y0, "title", yamlDoubleQuote(video.title))
      y2 == setYamlField(y1, "date", <<"\"">> \o video.startedAtEastern \o <<"\"">>)
      y3 == setYamlField(y2, "twitchUrl", yamlDoubleQuote(video.url))
      y4 == setYamlField(y3, "thumbnail", video.localThumbnail)
  IN <<Delimiter>> \o y4 \o <<Delimiter>> \o MatchBody(original)

\* updateEpisodeFile on a file holding `original`: what it returns, whether
\* it called writeFileSync, and what the file holds afterwards
updateEpisodeFile(original, video) ==
  IF ~FrontmatterMatches(original)
  THEN [result |-> "skipped", wrote |-> FALSE, content |-> original]
  ELSE IF updatedContent(original, video) = original
  THEN [result |-> "unchanged", wrote |-> FALSE, content |-> original]
  ELSE [result |-> "updated", wrote |-> TRUE,
        content |-> updatedContent(original, video)]

(***************************************************************************)
(* Remote video records and their normalised form.                         *)
(***************************************************************************)
\* The %{width}x%{height} token of a thumbnail URL template
Template == "%{width}x%{height}"

ThumbnailTemplate(id) == <<"https://cdn/", Digits[id + 1], "-", Template, ".jpg">>

VideoUrl(id) == <<"https://www.twitch.tv/videos/", Digits[id + 1]>>

\* The records the remote channel may hold.  Records 2 and 3 fall on the same
\* Eastern civil date (2026-03-07), record 2 on the next UTC date; record 4 is
\* a record whose thumbnail_url is empty.
RecordPool ==
  { [id |-> 1, title |-> <<"A">>, created_at |-> 44,
     thumbnail_url |-> ThumbnailTemplate(1), url |-> VideoUrl(1)],
    [id |-> 2, title |-> <<"$", "$">>, created_at |-> 26,
     thumbnail_url |-> ThumbnailTemplate(2), url |-> VideoUrl(2)],
    [id |-> 3, title |-> <<"B", "\"">>, created_at |-> 20,
     thumbnail_url |-> ThumbnailTemplate(3), url |-> VideoUrl(3)],
    [id |-> 4, title |-> <<"C">>, created_at |-> 2,
     thumbnail_url |-> <<>>, url |-> VideoUrl(4)] }

\* template literal rendering of a property that was never assigned
Undefined == <<"undefined">>

\* v.thumbnail_url.replace('%{width}x%{height}', '1280x720'): first occurrence
RECURSIVE ReplaceTemplate(_)
ReplaceTemplate(url) ==
  IF url = <<>> THEN <<>>
  ELSE IF Head(url) = Template THEN <<"1280x720">> \o Tail(url)
  ELSE <<Head(url)>> \o ReplaceTemplate(Tail(url))

\* The object the main function builds for one raw record
Transform(v) ==
  [videoId |-> v.id,
   url |-> v.url,
   title |-> v.title,
   thumbnail |-> ReplaceTemplate(v.thumbnail_url),
   date |-> toEasternDate(v.created_at),
   startedAt |-> v.created_at,
   startedAtEastern |-> toEasternDateTime(v.created_at),
   localThumbnail |-> Undefined]

\* url.replace(/(-|\b)(\d+x\d+)(\.\w+)$/, '$11280x720$3')
IsDimensions(tok) == tok \in {"1280x720", "320x180", "640x360"}
highResUrl(url) ==
  IF Len(url) >= 2 /\ IsDimensions(url[Len(url) - 1])
  THEN [url EXCEPT ![Len(url) - 1] = "1280x720"]
  ELSE url

LocalThumbnailPath(date) == <<"../../assets/episodes/">> \o date \o <<".jpg">>

(***************************************************************************)
(* The remote API: a chain of pages, each naming the next by its cursor    *)
(* (0: no cursor).                                                         *)
(***************************************************************************)
RECURSIVE Paginate(_, _, _, _)
Paginate(list, size, trailingEmpty, index) ==
  IF Len(list) <= size
  THEN IF trailingEmpty /\ Len(list) = size
       THEN << [data |-> list, cursor |-> index + 1],
               [data |-> <<>>, cursor |-> 0] >>
       ELSE << [data |-> list, cursor |-> 0] >>
  ELSE << [data |-> SubSeq(list, 1, size), cursor |-> index + 1] >>
         \o Paginate(SubSeq(list, size + 1, Len(list)), size, trailingEmpty,
                     index + 1)

\* Sequences of distinct records of the pool, at most n long
RecordLists(n) ==
  UNION { { l \in [1..k -> RecordPool] :
              \A a, b \in 1..k : a # b => l[a] # l[b] } : k \in 0..n }

\* Every record of every page, in page order
RECURSIVE AllRecords(_)
AllRecords(pages) ==
  IF pages = <<>> THEN <<>> ELSE Head(pages).data \o AllRecords(Tail(pages))

(***************************************************************************)
(* State.                                                                  *)
(***************************************************************************)
VARIABLES
  remote,        \* the pages the remote API serves
  argv,          \* [after, before, force]: the parsed command line
  contentDir,    \* src/content/episodes: civil date -> lines of {date}.md
  assetsDir,     \* src/assets/episodes: civil date -> image stored at {date}.jpg
  pc,            \* where the main function is
  run,           \* which invocation of the script this is
  cursor,        \* fetchAllVideos: cursor
  rawVideos,     \* fetchAllVideos: videos; main: rawVideos
  videos,        \* main: videos
  i,             \* index of the current element of a for..of loop
  created, updatedCount, unchanged,
  exitCode,      \* -1 while the process runs
  log,           \* the network requests and file writes of this run, in order
  last,          \* the latest thumbnail or content file step: what it saw and did
  envFile,       \* the .env file beside the script
  processArgv,   \* process.argv after the script name: the arguments as typed
  atStart,       \* the two directories as this invocation found them
  crashed,       \* some earlier invocation was killed before it ended
  input,         \* argument of a function exercised on its own
  output         \* what that function returned

vars == <<remote, argv, contentDir, assetsDir, pc, run, cursor, rawVideos,
          videos, i, created, updatedCount, unchanged, exitCode, log, last,
          envFile, processArgv, atStart, crashed, input, output>>

\* What no step of a running process changes
aside == <<envFile, processArgv, atStart, crashed, input, output>>

\* parseDateArg yields null when the flag is absent
Null == <<>>

DateString(day) == <<"2", "0", "2", "6", "-", "0", "3", "-">> \o pad2(day)

EmptyDir == [p \in {} |-> <<>>]

WriteFile(dir, path, content) ==
  [p \in DOMAIN dir \cup {path} |-> IF p = path THEN content ELSE dir[p]]

StatusText(status) ==
  CASE status = 200 -> "200" [] status = 401 -> "401"
    [] status = 404 -> "404" [] status = 500 -> "500"

Entry(op, arg, res, id) == [op |-> op, arg |-> arg, res |-> res, id |-> id]

(***************************************************************************)
(* main: credentials and command line.                                     *)
(***************************************************************************)
Range(seq) == {seq[k] : k \in 1..Len(seq)}

\* line.trim(): the line without its leading and trailing blanks
Trim(line) ==
  LET solid == {k \in 1..Len(line) : line[k] # " "}
  IN IF solid = {} THEN <<>>
     ELSE SubSeq(line, CHOOSE k \in solid : \A j \in solid : k <= j,
                       CHOOSE k \in solid : \A j \in solid : j <= k)

\* line.includes('=') && !line.trimStart().startsWith('#')
IsAssignment(line) ==
  /\ "=" \in Range(line)
  /\ Trim(line)[1] # "#"

\* [line.slice(0, eq).trim(), line.slice(eq + 1).trim()]
KeyValue(line) ==
  LET eq == CHOOSE k \in 1..Len(line) :
              line[k] = "=" /\ \A j \in 1..(k - 1) : line[j] # "="
  IN [key |-> Trim(SubSeq(line, 1, eq - 1)),
      value |-> Trim(SubSeq(line, eq + 1, Len(line)))]

\* The key-value pairs of a .env file; {} when the file cannot be read.  Of
\* two lines with one key, Object.fromEntries keeps the later.
readEnvFile(file) ==
  IF ~file.exists THEN [key \in {} |-> <<>>]
  ELSE LET pairs == [k \in 1..Len(SelectSeq(file.lines, IsAssignment)) |->
                       KeyValue(SelectSeq(file.lines, IsAssignment)[k])]
       IN [key \in {pairs[k].key : k \in 1..Len(pairs)} |->
             pairs[CHOOSE k \in 1..Len(pairs) :
                     /\ pairs[k].key = key
                     /\ \A j \in (k + 1)..Len(pairs) : pairs[j].key # key].value]

\* env.KEY: the empty text stands for undefined as well, both are falsy
EnvGet(env, key) == IF <<key>> \in DOMAIN env THEN env[<<key>>] ELSE <<>>

\* Mutant: any value is taken for a date
IsDateArgAny(val) == TRUE

\* /^\d{4}-\d{2}-\d{2}$/.test(val)
IsDateArg(val) ==
  /\ Len(val) = 10
  /\ \A k \in {5, 8} : val[k] = "-"
  /\ \A k \in {1, 2, 3, 4, 6, 7, 9, 10} : val[k] \in Range(Digits)

\* parseDateArg: null when the flag is absent, the value when it is a date,
\* process.exit(1) otherwise
parseDateArg(args, flag) ==
  LET hits == {k \in 1..Len(args) : args[k] = <<flag>>}
      idx == CHOOSE k \in hits : \A j \in hits : k <= j
  IN IF hits = {} THEN [exit |-> FALSE, value |-> Null]
     ELSE IF idx + 1 > Len(args) \/ args[idx + 1] = <<>>
               \/ ~IsDateArg(args[idx + 1])
     THEN [exit |-> TRUE, value |-> Null]
     ELSE [exit |-> FALSE, value |-> args[idx + 1]]

\* What afterDate, beforeDate and forceDownload hold before they are assigned
NoFlags == [after |-> Null, before |-> Null, force |-> FALSE]

\* Credential check and date arguments: the process goes on to the network
\* only with both credentials and well-formed dates
Configure ==
  /\ pc = "start"
  /\ LET env == readEnvFile(envFile)
         clientId == EnvGet(env, "TWITCH_CLIENT_ID")
         clientSecret == EnvGet(env, "TWITCH_CLIENT_SECRET")
         afterDate == parseDateArg(processArgv, "--after")
         beforeDate == parseDateArg(processArgv, "--before")
     IN IF clientId = <<>> \/ clientSecret = <<>>
        THEN pc' = "exit" /\ exitCode' = 1 /\ argv' = argv
        ELSE IF afterDate.exit \/ beforeDate.exit
        THEN pc' = "exit" /\ exitCode' = 1 /\ argv' = argv
        ELSE /\ pc' = "auth"
             /\ exitCode' = exitCode
             /\ argv' = [after |-> afterDate.value, before |-> beforeDate.value,
                         force |-> <<"--force">> \in Range(processArgv)]
  /\ UNCHANGED aside
  /\ UNCHANGED <<remote, contentDir, assetsDir, run, cursor, rawVideos, videos,
                 i, created, updatedCount, unchanged, log, last>>

\* getAccessToken: httpsPost rejects on any status but 200
Authenticate ==
  /\ pc = "auth"
  /\ \E status \in {200, 401} :
       /\ log' = Append(log, Entry("POST token", <<>>, StatusText(status), 0))
       /\ IF status # 200
          THEN pc' = "exit" /\ exitCode' = 1
          ELSE pc' = "lookup" /\ exitCode' = exitCode
  /\ UNCHANGED aside
  /\ UNCHANGED <<remote, argv, contentDir, assetsDir, run, cursor, rawVideos,
                 videos, i, created, updatedCount, unchanged, last>>

\* Mutant: an empty answer is taken for a channel
UserFoundAlways(users) == TRUE

\* !data.data || data.data.length === 0 throws
UserFound(users) == users > 0

\* getUserId: the answer carries `users` users
Lookup ==
  /\ pc = "lookup"
  /\ \E status \in {200, 500}, users \in {0, 1} :
       /\ status # 200 => users = 0
       /\ log' = Append(log, Entry("GET users", <<Digits[users + 1]>>,
                                   StatusText(status), 0))
       /\ IF status # 200 \/ ~UserFound(users)
          THEN pc' = "exit" /\ exitCode' = 1
          ELSE pc' = "fetch" /\ exitCode' = exitCode
  /\ UNCHANGED aside
  /\ UNCHANGED <<remote, argv, contentDir, assetsDir, run, cursor, rawVideos,
                 videos, i, created, updatedCount, unchanged, last>>

(***************************************************************************)
(* fetchAllVideos: one iteration of its do..while loop.                    *)
(***************************************************************************)
\* Mutant: the page is the last useful one only when its oldest record is
\* strictly before afterDate
AfterDateCutoffStrict(data, afterDate) ==
  /\ afterDate # Null
  /\ Len(data) > 0
  /\ StrLess(toEasternDate(data[Len(data)].created_at), afterDate)

AfterDateCutoff(data, afterDate) ==
  /\ afterDate # Null
  /\ Len(data) > 0
  /\ StrLeq(toEasternDate(data[Len(data)].created_at), afterDate)

\* Mutant: the last useful page is taken whole
NewerThanAll(data, afterDate) == data

NewerThan(data, afterDate) ==
  SelectSeq(data, LAMBDA v : StrLess(afterDate, toEasternDate(v.created_at)))

\* Mutant: the cursor of the response is never read
NextCursorNone(page) == 0

\* data.pagination?.cursor || null
NextCursor(page) == page.cursor

FetchPage ==
  /\ pc = "fetch"
  /\ LET index == IF cursor = 0 THEN 1 ELSE cursor
         data == remote[index].data
     IN \E status \in {200, 500} :
          IF status # 200
          THEN /\ log' = Append(log, Entry("GET videos", <<Digits[index + 1]>>, StatusText(status), 0))
               /\ pc' = "exit"
               /\ exitCode' = 1
               /\ UNCHANGED <<cursor, rawVideos>>
          ELSE /\ log' = Append(log, Entry("GET videos", <<Digits[index + 1]>>, StatusText(status), 0))
               /\ exitCode' = exitCode
               /\ IF AfterDateCutoff(data, argv.after)
                  THEN /\ rawVideos' = rawVideos \o NewerThan(data, argv.after)
                       /\ cursor' = cursor
                       /\ pc' = "filter"
                  ELSE /\ rawVideos' = rawVideos \o data
                       /\ cursor' = NextCursor(remote[index])
                       /\ pc' = IF NextCursor(remote[index]) # 0 THEN "fetch" ELSE "filter"
  /\ UNCHANGED aside
  /\ UNCHANGED <<remote, argv, contentDir, assetsDir, run, videos, i, created,
                 updatedCount, unchanged, last>>

(***************************************************************************)
(* main: client-side filter and transform.                                 *)
(***************************************************************************)
\* Mutant: --before keeps the records dated exactly beforeDate
PassesFilterInclusive(v) ==
  LET date == toEasternDate(v.created_at)
  IN /\ ~(argv.after # Null /\ StrLeq(date, argv.after))
     /\ ~(argv.before # Null /\ StrLess(argv.before, date))

\* Mutant: nothing is filtered out
PassesFilterAll(v) == TRUE

PassesFilter(v) ==
  LET date == toEasternDate(v.created_at)
  IN /\ ~(argv.after # Null /\ StrLeq(date, argv.after))
     /\ ~(argv.before # Null /\ StrLeq(argv.before, date))

MapTransform(list) == [k \in 1..Len(list) |-> Transform(list[k])]

FilterTransform ==
  /\ pc = "filter"
  /\ videos' = MapTransform(SelectSeq(rawVideos, PassesFilter))
  /\ log' = Append(log, Entry("mkdirSync", <<"src/assets/episodes">>, "ok", 0))
  /\ i' = 1
  /\ pc' = "thumbnails"
  /\ UNCHANGED aside
  /\ UNCHANGED <<remote, argv, contentDir, assetsDir, run, cursor, rawVideos,
                 created, updatedCount, unchanged, exitCode, last>>

(***************************************************************************)
(* main: the thumbnail loop, one record per step.                          *)
(***************************************************************************)
NoStep == [op |-> "none", path |-> <<>>, video |-> 0, hadUrl |-> FALSE,
           existed |-> FALSE, requested |-> FALSE, status |-> 0,
           before |-> <<>>, after |-> <<>>, result |-> "none", wrote |-> FALSE]

\* Mutant: --force is ignored
ShouldDownloadIgnoringForce(force, exists) == ~exists

\* forceDownload || !fs.existsSync(outputPath)
ShouldDownload(force, exists) == force \/ ~exists

\* Mutant: the response status is not looked at
downloadThumbnailUnchecked(status) == "resolve"

\* downloadThumbnail settles its promise by the response status
downloadThumbnail(status) == IF status # 200 THEN "reject" ELSE "resolve"

ThumbnailStep ==
  /\ pc = "thumbnails"
  /\ i <= Len(videos)
  /\ LET video == videos[i]
         path == video.date
         seen == [NoStep EXCEPT !.op = "thumbnail", !.path = path,
                                !.video = video.videoId,
                                !.hadUrl = (video.thumbnail # <<>>),
                                !.existed = (path \in DOMAIN assetsDir)]
     IN IF video.thumbnail = <<>>
        THEN /\ i' = i + 1
             /\ last' = seen
             /\ UNCHANGED <<assetsDir, videos, pc, exitCode, log>>
        ELSE IF ShouldDownload(argv.force, path \in DOMAIN assetsDir)
        THEN \E status \in {200, 404} :
               /\ last' = [seen EXCEPT !.requested = TRUE, !.status = status]
               /\ log' = Append(log, Entry("download", path, StatusText(status), video.videoId))
               /\ IF downloadThumbnail(status) = "reject"
                  THEN /\ pc' = "exit"
                       /\ exitCode' = 1
                       /\ UNCHANGED <<assetsDir, videos, i>>
                  ELSE /\ assetsDir' = WriteFile(assetsDir, path, highResUrl(video.thumbnail))
                       /\ videos' = [videos EXCEPT ![i].localThumbnail = LocalThumbnailPath(path)]
                       /\ i' = i + 1
                       /\ UNCHANGED <<pc, exitCode>>
        ELSE /\ videos' = [videos EXCEPT ![i].localThumbnail = LocalThumbnailPath(path)]
             /\ i' = i + 1
             /\ last' = seen
             /\ UNCHANGED <<assetsDir, pc, exitCode, log>>
  /\ UNCHANGED aside
  /\ UNCHANGED <<remote, argv, contentDir, run, cursor, rawVideos, created,
                 updatedCount, unchanged>>

\* Mutant: the loop is left before its last element
LoopOverAlways(index, list) == TRUE

\* for (const video of videos): the loop is over after the last element
LoopOver(index, list) == index > Len(list)

\* The thumbnail loop is over: the counters are set up for the next loop
StartEpisodes ==
  /\ pc = "thumbnails"
  /\ LoopOver(i, videos)
  /\ pc' = "episodes"
  /\ i' = 1
  /\ created' = 0
  /\ updatedCount' = 0
  /\ unchanged' = 0
  /\ log' = Append(log, Entry("mkdirSync", <<"src/content/episodes">>, "ok", 0))
  /\ UNCHANGED aside
  /\ UNCHANGED <<remote, argv, contentDir, assetsDir, run, cursor, rawVideos,
                 videos, exitCode, last>>

(***************************************************************************)
(* main: the create-or-update loop, one record per step.                   *)
(***************************************************************************)
\* Mutant: a file that cannot be parsed is passed over in silence
WarningsNone(result, path, id) == <<>>

\* What updateEpisodeFile prints: a warning with the file's base name when it
\* finds no attributes block
Warnings(result, path, id) ==
  IF result = "skipped"
  THEN <<Entry("console.error", path \o <<".md">>, "Warning", id)>>
  ELSE <<>>

\* Mutant: the existence test always answers no
existsSyncNever(dir, path) == FALSE

existsSync(dir, path) == path \in DOMAIN dir

EpisodeStep ==
  /\ pc = "episodes"
  /\ i <= Len(videos)
  /\ LET video == videos[i]
         path == video.date
         had == path \in DOMAIN contentDir
         seen == [NoStep EXCEPT !.path = path, !.video = video.videoId,
                                !.existed = had,
                                !.before = IF had THEN contentDir[path] ELSE <<>>]
     IN IF existsSync(contentDir, path)
        THEN LET u == updateEpisodeFile(contentDir[path], video)
             IN /\ contentDir' = IF u.wrote
                                 THEN WriteFile(contentDir, path, u.content)
                                 ELSE contentDir
                /\ log' = log \o <<Entry("readFileSync", path, "md", video.videoId)>>
                              \o Warnings(u.result, path, video.videoId)
                              \o (IF u.wrote
                                  THEN <<Entry("writeFileSync", path, "update", video.videoId)>>
                                  ELSE <<>>)
                /\ last' = [seen EXCEPT !.op = "update", !.result = u.result,
                                        !.wrote = u.wrote,
                                        !.after = IF u.wrote THEN u.content
                                                  ELSE contentDir[path]]
                /\ updatedCount' = IF u.result = "updated" THEN updatedCount + 1
                                   ELSE updatedCount
                /\ unchanged' = IF u.result = "unchanged" THEN unchanged + 1
                                ELSE unchanged
                /\ created' = created
        ELSE /\ contentDir' = WriteFile(contentDir, path, createdContent(video))
             /\ log' = Append(log, Entry("writeFileSync", path, "create", video.videoId))
             /\ last' = [seen EXCEPT !.op = "create", !.result = "created",
                                     !.wrote = TRUE,
                                     !.after = createdContent(video)]
             /\ created' = created + 1
             /\ UNCHANGED <<updatedCount, unchanged>>
  /\ i' = i + 1
  /\ UNCHANGED aside
  /\ UNCHANGED <<remote, argv, assetsDir, pc, run, cursor, rawVideos, videos,
                 exitCode>>

\* The numbers of the summary line
SummaryLine ==
  [created |-> created, updated |-> updatedCount, unchanged |-> unchanged,
   fetched |-> Len(rawVideos)]

\* The summary line is printed and the process ends
Summary ==
  /\ pc = "episodes"
  /\ i > Len(videos)
  /\ pc' = "exit"
  /\ exitCode' = 0
  /\ UNCHANGED aside
  /\ UNCHANGED <<remote, argv, contentDir, assetsDir, run, cursor, rawVideos,
                 videos, i, created, updatedCount, unchanged, log, last>>

(***************************************************************************)
(* The process is killed (a signal, a power cut) while it runs.            *)
(***************************************************************************)
\* Exit status of a process ended by SIGINT
Killed == 130

\* What a file holds when the process dies while it streams or writes
\* `content` to it: the file was opened for writing, so it holds a proper
\* prefix of the content, down to nothing
PartialTexts(content) ==
  {SubSeq(content, 1, k) : k \in 1..(Len(content) - 1)} \cup {<< <<>> >>}

PartialImages(content) == {SubSeq(content, 1, k) : k \in 0..(Len(content) - 1)}

\* Killed between two operations
Interrupt ==
  /\ pc # "exit"
  /\ ~crashed
  /\ crashed' = TRUE
  /\ pc' = "exit"
  /\ exitCode' = Killed
  /\ UNCHANGED <<remote, argv, contentDir, assetsDir, run, cursor, rawVideos,
                 videos, i, created, updatedCount, unchanged, log, last,
                 envFile, processArgv, atStart, input, output>>

\* Killed while downloadThumbnail pipes the response into the file at
\* outputPath
InterruptDownload ==
  /\ pc = "thumbnails"
  /\ ~crashed
  /\ i <= Len(videos)
  /\ videos[i].thumbnail # <<>>
  /\ ShouldDownload(argv.force, videos[i].date \in DOMAIN assetsDir)
  /\ \E partial \in PartialImages(highResUrl(videos[i].thumbnail)) :
       assetsDir' = WriteFile(assetsDir, videos[i].date, partial)
  /\ log' = Append(log, Entry("download", videos[i].date, StatusText(200),
                              videos[i].videoId))
  /\ crashed' = TRUE
  /\ pc' = "exit"
  /\ exitCode' = Killed
  /\ UNCHANGED <<remote, argv, contentDir, run, cursor, rawVideos, videos, i,
                 created, updatedCount, unchanged, last, envFile, processArgv,
                 atStart, input, output>>

\* Killed inside the writeFileSync of createEpisodeFile or updateEpisodeFile
InterruptWrite ==
  /\ pc = "episodes"
  /\ ~crashed
  /\ i <= Len(videos)
  /\ LET video == videos[i]
         path == video.date
         content == IF existsSync(contentDir, path)
                    THEN updateEpisodeFile(contentDir[path], video)
                    ELSE [result |-> "created", wrote |-> TRUE,
                          content |-> createdContent(video)]
     IN /\ content.wrote
        /\ \E partial \in PartialTexts(content.content) :
             contentDir' = WriteFile(contentDir, path, partial)
        /\ log' = Append(log, Entry("writeFileSync", path, "killed", video.videoId))
  /\ crashed' = TRUE
  /\ pc' = "exit"
  /\ exitCode' = Killed
  /\ UNCHANGED <<remote, argv, assetsDir, run, cursor, rawVideos, videos, i,
                 created, updatedCount, unchanged, last, envFile, processArgv,
                 atStart, input, output>>

\* The operator invokes the script again: same flags, same remote data, the
\* directories as the previous run left them
Rerun ==
  /\ pc = "exit"
  /\ exitCode \in {0, Killed}
  /\ run < MaxRuns
  /\ run' = run + 1
  /\ pc' = "start"
  /\ argv' = NoFlags
  /\ atStart' = [contentDir |-> contentDir, assetsDir |-> assetsDir]
  /\ cursor' = 0
  /\ rawVideos' = <<>>
  /\ videos' = <<>>
  /\ i' = 1
  /\ created' = 0
  /\ updatedCount' = 0
  /\ unchanged' = 0
  /\ exitCode' = -1
  /\ log' = <<>>
  /\ last' = NoStep
  /\ UNCHANGED <<remote, contentDir, assetsDir, envFile, processArgv, crashed,
                 input, output>>

(***************************************************************************)
(* Content files a run may find in place.                                  *)
(***************************************************************************)
\* A file an editor has worked on: own tags, a second URL, own notes, and a
\* horizontal rule in the notes
HumanFile ==
  << Delimiter,
     <<"title", ":", " ", "\"", "O", "l", "d", "\"">>,
     <<"date", ":", " ", "\"", "2026-03-01T12:00:00-05:00", "\"">>,
     <<"tags", ":", " ", "[\"snake\", \"python\"]">>,
     <<"youtubeUrl", ":", " ", "\"", "https://youtu.be/x", "\"">>,
     <<"twitchUrl", ":", " ", "\"", "https://www.twitch.tv/videos/", "0", "\"">>,
     <<"thumbnail", ":", " ", "../../assets/episodes/", "old", ".jpg">>,
     Delimiter,
     <<>>,
     <<"My notes">>,
     Delimiter,
     <<"More notes">>,
     <<>> >>

\* Only editor-owned attributes: the four synced keys are absent
MissingKeysFile ==
  << Delimiter,
     <<"tags", ":", " ", "[\"snake\", \"python\"]">>,
     <<" ", " ", "title", ":", " ", "nested">>,
     Delimiter,
     <<"Body">> >>

\* The file ends right after the closing delimiter: no newline, no body
NoBodyFile ==
  << Delimiter,
     <<"title", ":", " ", "\"", "O", "l", "d", "\"">>,
     <<"tags", ":", " ", "[]">>,
     Delimiter >>

\* The title key occurs twice
DuplicateKeyFile ==
  << Delimiter,
     <<"title", ":", " ", "\"", "O", "l", "d", "\"">>,
     <<"title", ":", " ", "\"", "O", "l", "d", "e", "r", "\"">>,
     Delimiter,
     <<>> >>

\* An attributes block that is one empty line
EmptyYamlFile == << Delimiter, <<>>, Delimiter, <<>> >>

\* No attributes block at all
BrokenFile == << <<"# Notes">>, <<>> >>

\* An attributes block that is never closed
UnclosedFile == << Delimiter, <<"title", ":", " ", "\"", "O", "l", "d", "\"">>, <<>> >>

\* Titles a record may carry
SampleTitles ==
  { <<"A">>, <<"B", "\"">>, <<"$", "$">>, <<"$", "&">>, <<"$", "'", "s">>,
    <<"$", Backtick>>, <<"$", "1">> }

SampleFiles ==
  {HumanFile, MissingKeysFile, NoBodyFile, DuplicateKeyFile, EmptyYamlFile,
   BrokenFile, UnclosedFile}

(***************************************************************************)
(* Credentials files and command lines a run may be started with.          *)
(***************************************************************************)
GoodEnv ==
  [exists |-> TRUE,
   lines |-> << <<"#", " ", "Twitch app">>,
                <<"TWITCH_CLIENT_ID", "=", "id">>,
                <<"TWITCH_CLIENT_SECRET", " ", "=", " ", "secret">>,
                <<>> >>]

\* There is no .env file
NoEnvFile == [exists |-> FALSE, lines |-> <<>>]

MissingSecretEnv ==
  [exists |-> TRUE, lines |-> << <<"TWITCH_CLIENT_ID", "=", "id">>, <<>> >>]

EmptySecretEnv ==
  [exists |-> TRUE,
   lines |-> << <<"TWITCH_CLIENT_ID", "=", "id">>,
                <<"TWITCH_CLIENT_SECRET", "=", " ">> >>]

CommentedIdEnv ==
  [exists |-> TRUE,
   lines |-> << <<" ", "#", "TWITCH_CLIENT_ID", "=", "id">>,
                <<"TWITCH_CLIENT_SECRET", "=", "secret">> >>]

\* The key is set and then set again to nothing
OverriddenIdEnv ==
  [exists |-> TRUE,
   lines |-> << <<"TWITCH_CLIENT_ID", "=", "id">>,
                <<"TWITCH_CLIENT_SECRET", "=", "secret">>,
                <<"TWITCH_CLIENT_ID", "=">> >>]

BadEnvs ==
  {NoEnvFile, MissingSecretEnv, EmptySecretEnv, CommentedIdEnv, OverriddenIdEnv}

GoodArgs ==
  { a \o b \o f :
      a \in {<<>>, << <<"--after">>, DateString(6) >>, << <<"--after">>, DateString(7) >>},
      b \in {<<>>, << <<"--before">>, DateString(8) >>},
      f \in {<<>>, << <<"--force">> >>} }

\* Command lines whose --after or --before has no value or no YYYY-MM-DD value
BadArgs ==
  { << <<"--after">> >>,
    << <<"--after">>, <<"--force">> >>,
    << <<"--after">>, <<"2", "0", "2", "6", "/", "0", "3", "/", "0", "7">> >>,
    << <<"--before">>, <<"2", "0", "2", "6", "-", "3", "-", "8">> >>,
    << <<"--after">>, DateString(7), <<"--before">> >>,
    << <<"--force">>, <<"--before">>, <<>> >> }

(***************************************************************************)
(* Specifications.                                                         *)
(***************************************************************************)
\* The state a process starts in, whatever the inputs
Fresh ==
  /\ run = 1
  /\ cursor = 0
  /\ rawVideos = <<>>
  /\ videos = <<>>
  /\ i = 1
  /\ created = 0
  /\ updatedCount = 0
  /\ unchanged = 0
  /\ exitCode = -1
  /\ log = <<>>
  /\ last = NoStep
  /\ atStart = [contentDir |-> contentDir, assetsDir |-> assetsDir]
  /\ crashed = FALSE
  /\ input = Null
  /\ output = Null

\* The whole pipeline, run up to MaxRuns times on the same remote data
Init ==
  /\ remote \in {Paginate(l, MaxPageSize, FALSE, 1) : l \in RecordLists(MaxRecords)}
  /\ \/ envFile = GoodEnv /\ processArgv \in GoodArgs \cup BadArgs
     \/ envFile \in BadEnvs
          /\ processArgv \in {<<>>, << <<"--after">>, DateString(7), <<"--before">> >>}
  /\ argv = NoFlags
  /\ contentDir \in {EmptyDir,
                     WriteFile(EmptyDir, DateString(7), HumanFile),
                     WriteFile(EmptyDir, DateString(7), BrokenFile),
                     WriteFile(EmptyDir, DateString(8), NoBodyFile)}
  /\ assetsDir \in {EmptyDir,
                    WriteFile(EmptyDir, DateString(7), <<"old image">>)}
  /\ pc = "start"
  /\ Fresh

Next ==
  \/ Configure
  \/ Authenticate
  \/ Lookup
  \/ FetchPage
  \/ FilterTransform
  \/ ThumbnailStep
  \/ StartEpisodes
  \/ EpisodeStep
  \/ Summary
  \/ Rerun

Spec == Init /\ [][Next]_vars

\* The pipeline on directories that start empty, killed at most once at any
\* point and invoked again
CrashInit ==
  /\ remote \in {Paginate(l, MaxPageSize, FALSE, 1) : l \in RecordLists(MaxRecords)}
  /\ envFile = GoodEnv
  /\ processArgv \in {<<>>, << <<"--force">> >>}
  /\ argv = NoFlags
  /\ contentDir = EmptyDir
  /\ assetsDir = EmptyDir
  /\ pc = "start"
  /\ Fresh

CrashNext ==
  \/ Next
  \/ Interrupt
  \/ InterruptDownload
  \/ InterruptWrite

CrashSpec == CrashInit /\ [][CrashNext]_vars

\* A state in which the pipeline itself is not running
Idle ==
  /\ remote = << [data |-> <<>>, cursor |-> 0] >>
  /\ envFile = GoodEnv
  /\ processArgv = <<>>
  /\ argv = NoFlags
  /\ contentDir = EmptyDir
  /\ assetsDir = EmptyDir
  /\ run = 1
  /\ cursor = 0
  /\ rawVideos = <<>>
  /\ videos = <<>>
  /\ i = 1
  /\ created = 0
  /\ updatedCount = 0
  /\ unchanged = 0
  /\ exitCode = -1
  /\ log = <<>>
  /\ last = NoStep
  /\ atStart = [contentDir |-> contentDir, assetsDir |-> assetsDir]
  /\ crashed = FALSE

\* The instants around the two transitions of 2026, and 2026-01-26T22:00:00Z
Instants ==
  ((DstStartHour - TimeSpan)..(DstStartHour + TimeSpan))
    \cup ((DstEndHour - TimeSpan)..(DstEndHour + TimeSpan))
    \cup {-938}

\* The date/time normaliser alone, on a pair of instants
TimeInit ==
  /\ Idle
  /\ pc = "normalise"
  /\ input \in Instants \X Instants
  /\ output = Null

Normalise ==
  /\ pc = "normalise"
  /\ output' = [k \in 1..2 |-> [date |-> toEasternDate(input[k]),
                                 dateTime |-> toEasternDateTime(input[k])]]
  /\ pc' = "returned"
  /\ UNCHANGED <<remote, argv, contentDir, assetsDir, run, cursor, rawVideos,
                 videos, i, created, updatedCount, unchanged, exitCode, log,
                 last, envFile, processArgv, atStart, crashed, input>>

TimeNext == Normalise

TimeSpec == TimeInit /\ [][TimeNext]_vars

\* Absent component of a duration
None == -1

\* Values a minute or second component takes
ComponentValues == {None, 0, 1, 9, 10, 29, 30, 45, 59}

\* The compact form of a duration: each present component as its digits and
\* its unit letter, hours first
DurationText(h, m, s) ==
  (IF h = None THEN <<>> ELSE NumberText(h) \o <<"h">>)
    \o (IF m = None THEN <<>> ELSE NumberText(m) \o <<"m">>)
    \o (IF s = None THEN <<>> ELSE NumberText(s) \o <<"s">>)

\* The duration formatter alone, on every combination of components
DurationInit ==
  /\ Idle
  /\ pc = "format"
  /\ input \in {[h |-> h, m |-> m, s |-> s, text |-> DurationText(h, m, s)] :
                  h \in {None} \cup 0..MaxHours,
                  m \in ComponentValues, s \in ComponentValues}
  /\ output = Null

Format ==
  /\ pc = "format"
  /\ output' = parseDuration(input.text)
  /\ pc' = "formatted"
  /\ UNCHANGED <<remote, argv, contentDir, assetsDir, run, cursor, rawVideos,
                 videos, i, created, updatedCount, unchanged, exitCode, log,
                 last, envFile, processArgv, atStart, crashed, input>>

DurationNext == Format

DurationSpec == DurationInit /\ [][DurationNext]_vars

\* fetchAllVideos alone, over every page layout of every record list
FetchInit ==
  /\ remote \in {Paginate(l, size, te, 1) :
                   l \in RecordLists(MaxRecords),
                   size \in 1..MaxPageSize, te \in BOOLEAN}
  /\ argv \in [after : {Null, DateString(6), DateString(7), DateString(8)},
               before : {Null},
               force : {FALSE}]
  /\ contentDir = EmptyDir
  /\ assetsDir = EmptyDir
  /\ envFile = GoodEnv
  /\ processArgv = <<>>
  /\ pc = "fetch"
  /\ Fresh

FetchNext == FetchPage

FetchSpec == FetchInit /\ [][FetchNext]_vars

\* The create-or-update step alone, over every sample file and every record
UpdateInit ==
  /\ remote = << [data |-> <<>>, cursor |-> 0] >>
  /\ argv = [after |-> Null, before |-> Null, force |-> FALSE]
  /\ \E q \in RecordPool, t \in SampleTitles, thumb \in BOOLEAN :
       LET r == [q EXCEPT !.title = t]
           v == Transform(r)
           video == IF thumb
                    THEN [v EXCEPT !.localThumbnail = LocalThumbnailPath(v.date)]
                    ELSE v
       IN /\ videos = <<video>>
          /\ rawVideos = <<r>>
          /\ contentDir \in {EmptyDir} \cup
               {WriteFile(EmptyDir, v.date, f) :
                  f \in SampleFiles
                          \cup {createdContent(video),
                                SubSeq(createdContent(video), 1, 7),
                                createdContent([video EXCEPT !.title = <<"O", "l", "d">>])}}
  /\ assetsDir = EmptyDir
  /\ pc = "episodes"
  /\ run = 1
  /\ cursor = 0
  /\ i = 1
  /\ created = 0
  /\ updatedCount = 0
  /\ unchanged = 0
  /\ exitCode = -1
  /\ log = <<>>
  /\ last = NoStep
  /\ envFile = GoodEnv
  /\ processArgv = <<>>
  /\ atStart = [contentDir |-> contentDir, assetsDir |-> assetsDir]
  /\ crashed = FALSE
  /\ input = Null
  /\ output = Null

UpdateNext == EpisodeStep

UpdateSpec == UpdateInit /\ [][UpdateNext]_vars

(***************************************************************************)
(* Properties.                                                             *)
(***************************************************************************)
LogOps(ops) == {k \in 1..Len(log) : log[k].op \in ops}

\* A second or later run has ended with exit code 0
RerunCompleted == run >= 2 /\ pc = "exit" /\ exitCode = 0

\* The processed records whose content file has no attributes block to locate
Unparseable ==
  {k \in 1..Len(videos) : ~FrontmatterMatches(contentDir[videos[k].date])}

\* C1 -- Idempotent re-run: a run that follows a completed run on the same
\* remote data, with the same flags and without --force, downloads no
\* thumbnail, writes no content file and reports 0 created, 0 updated and
\* every processed record unchanged (a file without an attributes block
\* is skipped and counted nowhere).
C1_IdempotentRerun ==
  (RerunCompleted /\ ~argv.force) =>
     /\ LogOps({"download", "writeFileSync"}) = {}
     /\ created = 0
     /\ updatedCount = 0
     /\ unchanged = Len(videos) - Cardinality(Unparseable)

\* The record the latest create-or-update step worked on
LastVideo == videos[i - 1]

\* The latest step was updateEpisodeFile on a file whose attributes block it found
UpdatedParsedFile == last.op = "update" /\ last.result # "skipped"

SyncedKeys == {"title", "date", "twitchUrl", "thumbnail"}

BeginsWithSyncedKey(ln) == Len(ln) >= 2 /\ ln[1] \in SyncedKeys /\ ln[2] = ":"

\* The attribute lines that are not a title, date, twitchUrl or thumbnail line
OtherLines(file) ==
  SelectSeq(MatchYaml(file), LAMBDA ln : ~BeginsWithSyncedKey(ln))

\* Everything after the closing delimiter
TextAfterBlock(file) == SubSeq(file, ClosingLine(file) + 1, Len(file))

\* C2 -- Field-level merge preservation: updateEpisodeFile changes only the
\* title, date, twitchUrl and thumbnail lines of the attributes block; the
\* other attribute lines, in their order, and the whole body are the same
\* before and after the update.
C2_MergePreservation ==
  UpdatedParsedFile =>
     /\ OtherLines(last.after) = OtherLines(last.before)
     /\ TextAfterBlock(last.after) = TextAfterBlock(last.before)

\* The line createEpisodeFile writes for a synced key
SyncedLine(key, video) ==
  CASE key = "title" -> createdContent(video)[2]
    [] key = "date" -> createdContent(video)[3]
    [] key = "twitchUrl" -> createdContent(video)[5]
    [] key = "thumbnail" -> createdContent(video)[6]

\* The file's four synced fields already equal the record's values
FieldsInSync(file, video) ==
  /\ FrontmatterMatches(file)
  /\ \A key \in SyncedKeys :
       \E k \in 1..Len(MatchYaml(file)) :
          /\ MatchYaml(file)[k] = SyncedLine(key, video)
          /\ \A j \in 1..(k - 1) : ~LineHasKey(MatchYaml(file)[j], key)

\* C3 -- updateEpisodeFile writes only when the recomputed content differs
\* from what it read: it returns 'updated' exactly when it wrote, on
\* 'unchanged' and 'skipped' the file is not written, and a file whose four
\* synced fields already equal the record's values yields 'unchanged'.
C3_WriteOnlyIfChanged ==
  last.op = "update" =>
     /\ last.result = "updated" <=> last.wrote
     /\ last.wrote => last.after # last.before
     /\ last.result \in {"unchanged", "skipped"} =>
          /\ ~last.wrote
          /\ contentDir[last.path] = last.before
     /\ FieldsInSync(last.before, LastVideo) => last.result = "unchanged"

\* C4 -- createEpisodeFile runs only when no file exists at the civil-date
\* path at that moment: it never replaces an existing content file.
C4_CreateOnlyWhenAbsent ==
  last.op = "create" => ~last.existed /\ last.before = <<>>

\* C4 witness: a file was created in this run and a later record of the same
\* civil date then met it and was merged into it
C4_Witness ==
  /\ last.op = "update"
  /\ \E k \in 1..Len(log) :
       /\ log[k].op = "writeFileSync"
       /\ log[k].res = "create"
       /\ log[k].arg = last.path
       /\ log[k].id # last.video

\* The page a logged request asked for
PageOf(entry) == CHOOSE n \in 1..Len(remote) : <<Digits[n + 1]>> = entry.arg

\* The oldest (last) record of the page has a civil date on or before d
OldestOnOrBefore(page, d) ==
  /\ Len(page.data) > 0
  /\ StrLeq(toEasternDate(page.data[Len(page.data)].created_at), d)

\* The records whose civil date is strictly after d
StrictlyAfter(list, d) ==
  SelectSeq(list, LAMBDA v : StrLess(d, toEasternDate(v.created_at)))

\* C5 -- Pagination early-termination: with afterDate, the first fetched page
\* whose oldest record has a civil date on or before afterDate is the last
\* page requested, and only its records strictly after afterDate are taken.
C5_EarlyTermination ==
  \A k \in 1..Len(log) :
     ( /\ log[k].op = "GET videos"
       /\ log[k].res = "200"
       /\ argv.after # Null
       /\ OldestOnOrBefore(remote[PageOf(log[k])], argv.after) )
     => /\ \A j \in LogOps({"GET videos"}) : j <= k
        /\ pc # "fetch"
        /\ rawVideos = AllRecords(SubSeq(remote, 1, PageOf(log[k]) - 1))
                         \o StrictlyAfter(remote[PageOf(log[k])].data, argv.after)

\* C5 witness: three pages or more, the oldest record of page 2 dated exactly
\* afterDate, and the fetch has returned after two requests
C5_Witness ==
  /\ Len(remote) >= 3
  /\ pc = "filter"
  /\ Len(log) = 2
  /\ Len(remote[2].data) > 0
  /\ toEasternDate(remote[2].data[Len(remote[2].data)].created_at) = argv.after

\* The remote API serves the records newest first, across and within pages
Descending ==
  \A a, b \in 1..Len(AllRecords(remote)) :
     a < b => AllRecords(remote)[a].created_at > AllRecords(remote)[b].created_at

\* C6 -- Early termination loses nothing: when the remote API serves the
\* records in descending order, fetchAllVideos with afterDate returns what
\* full pagination followed by the filter "civil date strictly after
\* afterDate" returns, in the same order.
C6_EarlyTerminationLosesNothing ==
  (pc = "filter" /\ argv.after # Null /\ Descending) =>
     rawVideos = StrictlyAfter(AllRecords(remote), argv.after)

\* C6 witness: a descending remote, the fetch stopped before the last page and
\* returned some records
C6_Witness ==
  /\ pc = "filter"
  /\ argv.after # Null
  /\ Descending
  /\ Len(log) < Len(remote)
  /\ rawVideos # <<>>
  /\ Len(rawVideos) < Len(AllRecords(remote))

\* C7 -- Without afterDate, fetchAllVideos requests page after page and stops
\* exactly at the page without a cursor: N requests for a chain of N pages,
\* and every record of every page returned in page order.
C7_FullPagination ==
  argv.after = Null =>
     /\ pc = "fetch" => Cardinality(LogOps({"GET videos"})) < Len(remote)
     /\ pc \notin {"fetch", "exit"} =>
          /\ Cardinality(LogOps({"GET videos"})) = Len(remote)
          /\ rawVideos = AllRecords(remote)

\* C7 witness: a chain of three pages or more fetched to its end
C7_Witness ==
  /\ argv.after = Null
  /\ pc = "filter"
  /\ Len(remote) >= 3
  /\ Len(log) = Len(remote)

\* The civil date lies strictly inside the range the flags give
InRange(v) ==
  /\ argv.after = Null \/ StrLess(argv.after, toEasternDate(v.created_at))
  /\ argv.before = Null \/ StrLess(toEasternDate(v.created_at), argv.before)

FileOps == {"download", "readFileSync", "writeFileSync"}

\* C8 -- Date-range filter: the records processed downstream are exactly the
\* fetched records whose civil date is strictly after afterDate (if given)
\* and strictly before beforeDate (if given).
C8_DateRangeFilter ==
  /\ pc \in {"thumbnails", "episodes"} \/ (pc = "exit" /\ exitCode = 0) =>
       [k \in 1..Len(videos) |-> videos[k].videoId]
         = [k \in 1..Len(SelectSeq(rawVideos, InRange)) |->
              SelectSeq(rawVideos, InRange)[k].id]
  /\ \A k \in LogOps(FileOps) :
       \E n \in 1..Len(rawVideos) :
          rawVideos[n].id = log[k].id /\ InRange(rawVideos[n])
  /\ pc = "exit" /\ exitCode = 0 =>
       \A n \in 1..Len(rawVideos) :
          InRange(rawVideos[n]) =>
             \E k \in LogOps({"readFileSync", "writeFileSync"}) :
                log[k].id = rawVideos[n].id

\* C8 witness: a run ended well that processed some record and had fetched a
\* record dated exactly beforeDate and a record dated exactly afterDate
C8_Witness ==
  /\ pc = "exit"
  /\ exitCode = 0
  /\ Len(videos) >= 1
  /\ \E n \in 1..Len(rawVideos) :
       toEasternDate(rawVideos[n].created_at) = argv.before
  /\ \E n \in 1..Len(rawVideos) :
       toEasternDate(rawVideos[n].created_at) = argv.after

C10_DownloadFailureAborts ==
  \A k \in 1..Len(log) :
     (log[k].op = "download" /\ log[k].res # "200") =>
        /\ k = Len(log)
        /\ pc = "exit"
        /\ exitCode = 1

\* C10 witness: a download failed while later records were still waiting
C10_Witness ==
  /\ pc = "exit"
  /\ exitCode = 1
  /\ last.op = "thumbnail"
  /\ last.status = 404
  /\ i < Len(videos)

\* The statuses with which a request fails
FailureStatuses == {"401", "404", "500"}

\* The latest step was updateEpisodeFile on a file without an attributes block
SkippedFile == last.op = "update" /\ last.result = "skipped"

\* C11 -- Per-file parse errors are the only locally recovered failure: a file
\* whose attributes block cannot be located is left as it was, a warning
\* naming the file is printed, the records that follow are still processed
\* and the run ends with exit code 0; any failed request ends the run with
\* exit code 1.
C11_ParseErrorRecovered ==
  /\ SkippedFile =>
       /\ ~last.wrote
       /\ contentDir[last.path] = last.before
       /\ log[Len(log)] = Entry("console.error", last.path \o <<".md">>,
                                "Warning", last.video)
       /\ pc = "episodes" \/ (pc = "exit" /\ i > Len(videos))
       /\ exitCode \in {-1, 0}
  /\ pc = "exit" /\ exitCode = 0 =>
       /\ \A n \in 1..Len(videos) :
            \E k \in LogOps({"readFileSync", "writeFileSync"}) :
               log[k].id = videos[n].videoId
       /\ \A p \in DOMAIN atStart.contentDir :
            ~FrontmatterMatches(atStart.contentDir[p]) =>
               contentDir[p] = atStart.contentDir[p]
  /\ \A k \in 1..Len(log) :
       log[k].res \in FailureStatuses =>
          k = Len(log) /\ pc = "exit" /\ exitCode = 1

\* C11 witness: a run ended with exit code 0 in which a file was skipped with
\* a warning and a record after it got its file created
C11_Witness ==
  /\ pc = "exit"
  /\ exitCode = 0
  /\ \E k \in LogOps({"console.error"}) :
       \E j \in LogOps({"writeFileSync"}) : j > k /\ log[j].res = "create"

\* The run was started with a credential missing or empty, or with an --after
\* or --before that has no YYYY-MM-DD value
ConfigurationError == envFile \in BadEnvs \/ processArgv \in BadArgs

\* C12 -- Configuration errors stop the run before any work: with a credential
\* missing or empty, or a date argument missing or malformed, the process
\* exits with code 1 before any network request and before any directory or
\* file is created or written.
C12_ConfigurationErrorsStopFirst ==
  ConfigurationError =>
     /\ pc \in {"start", "exit"}
     /\ pc = "exit" => exitCode = 1
     /\ log = <<>>
     /\ contentDir = atStart.contentDir
     /\ assetsDir = atStart.assetsDir

\* C12 witness: good credentials, a malformed --after value, and the process
\* has exited with code 1
C12_Witness ==
  /\ envFile = GoodEnv
  /\ processArgv = << <<"--after">>, <<"2", "0", "2", "6", "/", "0", "3", "/", "0", "7">> >>
  /\ Len(AllRecords(remote)) > 0
  /\ pc = "exit"
  /\ exitCode = 1

\* The token request failed, or the channel lookup failed or found no user
AuthOrLookupFailed(entry) ==
  \/ entry.op = "POST token" /\ entry.res # "200"
  \/ entry.op = "GET users" /\ (entry.res # "200" \/ entry.arg = <<"0">>)

\* C13 -- Authentication and lookup failures touch nothing local: when the
\* token request is answered with a status other than 200, or the channel
\* lookup with a status other than 200 or with no user, the run exits with
\* code 1 and no content file and no thumbnail has been created, changed or
\* removed.
C13_AuthFailureTouchesNothing ==
  \A k \in 1..Len(log) :
     AuthOrLookupFailed(log[k]) =>
        /\ k = Len(log)
        /\ pc = "exit"
        /\ exitCode = 1
        /\ contentDir = atStart.contentDir
        /\ assetsDir = atStart.assetsDir
        /\ LogOps(FileOps \cup {"mkdirSync", "GET videos"}) = {}

\* C13 witness: the channel lookup was answered 200 with no user, while the
\* remote holds records and the content directory holds a file
C13_Witness ==
  /\ pc = "exit"
  /\ exitCode = 1
  /\ Len(log) = 2
  /\ log[2] = Entry("GET users", <<"0">>, "200", 0)
  /\ Len(AllRecords(remote)) > 0
  /\ DOMAIN contentDir # {}

\* The text createEpisodeFile puts after the attributes block
PlaceholderBody == << <<>>, <<"Show notes coming soon!">>, <<>> >>

\* A run that followed a killed run has ended with exit code 0
RecoveredRun == crashed /\ run >= 2 /\ pc = "exit" /\ exitCode = 0

\* C14 -- Interrupt-and-re-run safety: after a run killed at any point and a
\* re-run to completion, no partially written file survives as if it were
\* complete: every thumbnail is the whole image of a record of its date, and
\* every content file (all made by the pipeline, the directories having
\* started empty) has its attributes block and the whole placeholder body.
C14_InterruptSafe ==
  RecoveredRun =>
     /\ \A p \in DOMAIN assetsDir :
          \E n \in 1..Len(videos) :
             /\ videos[n].date = p
             /\ assetsDir[p] = highResUrl(videos[n].thumbnail)
     /\ \A p \in DOMAIN contentDir :
          /\ FrontmatterMatches(contentDir[p])
          /\ TextAfterBlock(contentDir[p]) = PlaceholderBody

\* The standard/daylight rule of America/New_York in 2026
DaylightTime(t) == t >= DstStartHour /\ t < DstEndHour

\* The instant an offset datetime string YYYY-MM-DDTHH:MM:SS-HH:MM denotes:
\* its wall-clock fields read as UTC, moved back by its offset
InstantOf(s) ==
  DateParseUtc([month |-> SubSeq(s, 6, 7), day |-> SubSeq(s, 9, 10),
                hour |-> SubSeq(s, 12, 13)])
    - (IF s[20] = "-" THEN -1 ELSE 1) * Number2(SubSeq(s, 21, 22))

\* C15 -- Offset-aware datetime: toEasternDateTime gives the wall-clock fields
\* of the instant in America/New_York followed by the offset in force at that
\* instant, -05:00 under standard time and -04:00 under daylight time, and the
\* string denotes the instant it was made from, on both sides of the
\* spring-forward and of the fall-back.
C15_OffsetAwareDateTime ==
  pc = "returned" =>
     \A k \in 1..2 :
        LET s == output[k].dateTime
        IN /\ Len(s) = 25
           /\ SubSeq(s, 1, 5) = <<"2", "0", "2", "6", "-">>
           /\ s[8] = "-" /\ s[11] = "T" /\ s[14] = ":" /\ s[17] = ":"
           /\ SubSeq(s, 15, 16) = <<"0", "0">> /\ SubSeq(s, 18, 19) = <<"0", "0">>
           /\ Number2(SubSeq(s, 12, 13)) \in 0..23
           /\ SubSeq(s, 20, 25) =
                IF DaylightTime(input[k])
                THEN <<"-", "0", "4", ":", "0", "0">>
                ELSE <<"-", "0", "5", ":", "0", "0">>
           /\ InstantOf(s) = input[k]
           /\ SubSeq(s, 1, 10) = output[k].date

\* C15 witness: the first instant of daylight time and the first instant back
\* on standard time, with their wall clocks and offsets
C15_Witness ==
  /\ pc = "returned"
  /\ input = <<DstStartHour, DstEndHour>>
  /\ output[1].dateTime = <<"2", "0", "2", "6", "-", "0", "3", "-", "0", "8", "T",
                            "0", "3", ":", "0", "0", ":", "0", "0",
                            "-", "0", "4", ":", "0", "0">>
  /\ output[2].dateTime = <<"2", "0", "2", "6", "-", "1", "1", "-", "0", "1", "T",
                            "0", "1", ":", "0", "0", ":", "0", "0",
                            "-", "0", "5", ":", "0", "0">>

\* C16 -- toEasternDate is monotonically non-decreasing: for instants
\* t1 <= t2 the date of t1 is not after the date of t2 as YYYY-MM-DD strings,
\* daylight-saving transitions included.
C16_DateMonotonic ==
  (pc = "returned" /\ input[1] <= input[2]) =>
     StrLeq(output[1].date, output[2].date)

\* C16 witness: two instants on either side of the fall-back, in different
\* months
C16_Witness ==
  /\ pc = "returned"
  /\ input[1] < DstEndHour
  /\ input[2] >= DstEndHour
  /\ SubSeq(output[1].date, 6, 7) = <<"1", "0">>
  /\ SubSeq(output[2].date, 6, 7) = <<"1", "1">>

\* A component that is missing counts as zero
Count(component) == IF component = None THEN 0 ELSE component

\* C17 -- Duration formatting: for a compact duration of optional hour,
\* minute and second components, parseDuration gives H:MM:SS when the hour
\* component is nonzero and M:SS, without hour segment, when it is zero.
C17_DurationFormat ==
  pc = "formatted" =>
     output =
       IF Count(input.h) > 0
       THEN NumberText(input.h) \o <<":">> \o pad2(Count(input.m))
              \o <<":">> \o pad2(Count(input.s))
       ELSE NumberText(Count(input.m)) \o <<":">> \o pad2(Count(input.s))

\* C17 witness: one of "30s" -> "0:30", "45m10s" -> "45:10",
\* "1h1m29s" -> "1:01:29", "" -> "0:00" has been formatted
C17_Witness ==
  /\ pc = "formatted"
  /\ \/ input.text = <<"3", "0", "s">> /\ output = <<"0", ":", "3", "0">>
     \/ input.text = <<"4", "5", "m", "1", "0", "s">>
          /\ output = <<"4", "5", ":", "1", "0">>
     \/ input.text = <<"1", "h", "1", "m", "2", "9", "s">>
          /\ output = <<"1", ":", "0", "1", ":", "2", "9">>
     \/ input.text = <<>> /\ output = <<"0", ":", "0", "0">>

\* The positions of the colons of a formatted duration
Colons(text) == {k \in 1..Len(text) : text[k] = ":"}

\* The segments of a formatted duration, from the right: seconds, minutes,
\* and the hour segment when there is one
SecondsSegment(text) ==
  SubSeq(text, (CHOOSE c \in Colons(text) : \A j \in Colons(text) : j <= c) + 1,
         Len(text))

MinutesSegment(text) ==
  LET last_ == CHOOSE c \in Colons(text) : \A j \in Colons(text) : j <= c
      first_ == CHOOSE c \in Colons(text) : \A j \in Colons(text) : c <= j
  IN IF first_ = last_ THEN SubSeq(text, 1, last_ - 1)
     ELSE SubSeq(text, first_ + 1, last_ - 1)

HasHourSegment(text) == Cardinality(Colons(text)) = 2

HourSegment(text) ==
  SubSeq(text, 1, (CHOOSE c \in Colons(text) : \A j \in Colons(text) : c <= j) - 1)

\* C18 -- as claimed: in every output of parseDuration the minutes and the
\* seconds are each two digits long, and the hours, when nonzero, are not
\* padded.
C18_MinutesSecondsPadded ==
  pc = "formatted" =>
     /\ Len(SecondsSegment(output)) = 2
     /\ Len(MinutesSegment(output)) = 2
     /\ HasHourSegment(output) => HourSegment(output)[1] # "0"

\* C18, amended: the seconds are always two digits long; the minutes are two
\* digits long when the hour segment is there and written without padding
\* when it is not; the hour segment is there exactly when the hours are
\* nonzero and is not padded.
C18_PaddingByHourSegment ==
  pc = "formatted" =>
     /\ Len(SecondsSegment(output)) = 2
     /\ SecondsSegment(output) = pad2(Count(input.s))
     /\ HasHourSegment(output) <=> Count(input.h) > 0
     /\ HasHourSegment(output) =>
          /\ MinutesSegment(output) = pad2(Count(input.m))
          /\ HourSegment(output) = NumberText(input.h)
          /\ HourSegment(output)[1] # "0"
     /\ ~HasHourSegment(output) =>
          MinutesSegment(output) = NumberText(Count(input.m))

\* C18 witness: a duration under ten minutes without hours, its minutes
\* written as one digit, and its seconds under ten written as two
C18_Witness ==
  /\ pc = "formatted"
  /\ Count(input.h) = 0
  /\ input.m = 9
  /\ input.s = 1
  /\ output = <<"9", ":", "0", "1">>

\* The remote record a file step worked on
RecordOf(id) == CHOOSE r \in RecordPool : r.id = id

\* C19 -- New-file content: when no file exists for a processed record's
\* civil date, the created file is an attributes block of title, date (the
\* offset-aware Eastern datetime), the default tags, twitchUrl and the local
\* thumbnail reference, followed by the fixed body "Show notes coming soon!".
C19_NewFileContent ==
  last.op = "create" =>
     LET r == RecordOf(last.video)
     IN /\ ~last.existed
        /\ last.path = toEasternDate(r.created_at)
        /\ last.after =
             << <<"---">>,
                <<"title", ":", " ">> \o yamlDoubleQuote(r.title),
                <<"date", ":", " ", "\"">> \o toEasternDateTime(r.created_at)
                   \o <<"\"">>,
                <<"tags", ":", " ", "[\"claude-code\", \"ai\"]">>,
                <<"twitchUrl", ":", " ">> \o yamlDoubleQuote(r.url),
                <<"thumbnail", ":", " ", "../../assets/episodes/">>
                   \o toEasternDate(r.created_at) \o <<".jpg">>,
                <<"---">>,
                <<>>,
                <<"Show notes coming soon!">>,
                <<>> >>
        /\ contentDir[last.path] = last.after

\* The thumbnail lines of a content file
ThumbnailLines(content) ==
  {k \in 1..Len(content) :
     Len(content[k]) >= 2 /\ content[k][1] = "thumbnail" /\ content[k][2] = ":"}

\* C20 -- Civil date is the only join key: for a processed record of Eastern
\* civil date d the only local paths read or written are the content file
\* d.md and the thumbnail d.jpg, and the thumbnail reference written into
\* d.md names d.jpg.
C20_CivilDateJoinKey ==
  /\ \A k \in 1..Len(log) :
        log[k].id # 0 =>
           LET d == toEasternDate(RecordOf(log[k].id).created_at)
           IN log[k].arg \in {d, d \o <<".md">>}
  /\ last.op \in {"create", "update"} /\ last.wrote =>
        LET d == toEasternDate(RecordOf(last.video).created_at)
        IN /\ last.path = d
           /\ \A k \in ThumbnailLines(last.after) :
                 last.after[k] = <<"thumbnail", ":", " ", "../../assets/episodes/">>
                                    \o d \o <<".jpg">>

(***************************************************************************)
(* The order of main's requests and file operations, and which of them it  *)
(* awaits.                                                                 *)
(***************************************************************************)
\* most pages a listing is exercised with
MaxPages == 2

\* The operations that return a promise
PromiseOps == {"POST token", "GET users", "GET videos", "download"}

\* Mutant: main goes on without awaiting any promise
AwaitsNothing(op) == FALSE

\* main and fetchAllVideos await every promise; the fs.*Sync calls return
\* when the operation is over
Awaits(op) == op \in PromiseOps

Call(op, k) == [op |-> op, k |-> k]

\* The thumbnail loop from record k on.  thumbs[k] is "none" for a record
\* without thumbnail URL, "have" when the image is in place and not forced,
\* "need" when it is downloaded
RECURSIVE ThumbnailCalls(_, _)
ThumbnailCalls(thumbs, k) ==
  IF k > Len(thumbs) THEN <<>>
  ELSE (CASE thumbs[k] = "none" -> <<>>
          [] thumbs[k] = "have" -> <<Call("existsSync jpg", k)>>
          [] thumbs[k] = "need" -> <<Call("existsSync jpg", k), Call("download", k)>>)
       \o ThumbnailCalls(thumbs, k + 1)

\* The create-or-update loop from record k on.  files[k] is "new" when the
\* content file is missing, "same" when the update changes nothing, "stale"
\* when the update writes
RECURSIVE EpisodeCalls(_, _)
EpisodeCalls(files, k) ==
  IF k > Len(files) THEN <<>>
  ELSE (CASE files[k] = "new" ->
               <<Call("existsSync md", k), Call("writeFileSync", k)>>
          [] files[k] = "same" ->
               <<Call("existsSync md", k), Call("readFileSync", k)>>
          [] files[k] = "stale" ->
               <<Call("existsSync md", k), Call("readFileSync", k),
                 Call("writeFileSync", k)>>)
       \o EpisodeCalls(files, k + 1)

\* The calls of a run that nothing stops, in program order
Calls(plan) ==
  <<Call("POST token", 0), Call("GET users", 0)>>
    \o [p \in 1..plan.pages |-> Call("GET videos", p)]
    \o <<Call("mkdirSync assets", 0)>>
    \o ThumbnailCalls(plan.thumbs, 1)
    \o <<Call("mkdirSync content", 0)>>
    \o EpisodeCalls(plan.files, 1)

Plans ==
  UNION {[pages : 1..MaxPages,
          thumbs : [1..n -> {"none", "have", "need"}],
          files : [1..n -> {"new", "same", "stale"}]] : n \in 0..(MaxRecords - 1)}

IoInit ==
  /\ Idle
  /\ pc = "io"
  /\ input \in Plans
  /\ output = [next |-> 1, inflight |-> {}, started |-> <<>>,
               waiting |-> FALSE, overlapped |-> FALSE]

IoFrame ==
  UNCHANGED <<remote, argv, contentDir, assetsDir, run, cursor, rawVideos,
              videos, i, created, updatedCount, unchanged, exitCode, log,
              last, envFile, processArgv, atStart, crashed, input>>

\* main reaches its next call.  A *Sync call is over when it returns; any
\* other call leaves an operation in flight, and main is suspended when it
\* awaits the promise
CallStep ==
  /\ pc = "io"
  /\ ~output.waiting
  /\ output.next <= Len(Calls(input))
  /\ LET c == Calls(input)[output.next]
     IN output' = [output EXCEPT
                     !.next = @ + 1,
                     !.started = Append(@, c),
                     !.overlapped = @ \/ output.inflight # {},
                     !.inflight = IF c.op \in PromiseOps
                                  THEN @ \cup {output.next} ELSE @,
                     !.waiting = Awaits(c.op)]
  /\ pc' = pc
  /\ IoFrame

\* An operation in flight completes: its promise resolves and main goes on,
\* or it rejects and the catch block ends the process
SettleStep ==
  /\ pc = "io"
  /\ \E n \in output.inflight, ok \in BOOLEAN :
        /\ output' = [output EXCEPT !.inflight = @ \ {n}, !.waiting = FALSE]
        /\ pc' = IF ok THEN "io" ELSE "exit"
  /\ IoFrame

\* The summary is printed
ReturnStep ==
  /\ pc = "io"
  /\ ~output.waiting
  /\ output.next > Len(Calls(input))
  /\ pc' = "exit"
  /\ output' = output
  /\ IoFrame

IoNext == CallStep \/ SettleStep \/ ReturnStep

IoSpec == IoInit /\ [][IoNext]_vars

\* Where an operation stands in the fixed order of a run
Stage(op) ==
  CASE op = "POST token" -> 1
    [] op = "GET users" -> 2
    [] op = "GET videos" -> 3
    [] op = "mkdirSync assets" -> 4
    [] op \in {"existsSync jpg", "download"} -> 5
    [] op = "mkdirSync content" -> 6
    [] op \in {"existsSync md", "readFileSync", "writeFileSync"} -> 7

Excluded(r) ==
  \/ argv.after # Null /\ ~StrLess(argv.after, toEasternDate(r.created_at))
  \/ argv.before # Null /\ ~StrLess(toEasternDate(r.created_at), argv.before)

\* C22 -- A record excluded by the --after/--before filters causes no
\* downstream work: no thumbnail request, no thumbnail file write, and no
\* content file read, creation or update is performed for it.
C22_ExcludedRecordNoWork ==
  \A r \in Range(AllRecords(remote)) :
     Excluded(r) =>
        LET d == toEasternDate(r.created_at)
        IN /\ \A k \in 1..Len(log) : log[k].id # r.id /\ log[k].arg # d
           /\ last.video # r.id
           /\ last.path # d
           /\ (d \in DOMAIN contentDir) = (d \in DOMAIN atStart.contentDir)
           /\ d \in DOMAIN contentDir => contentDir[d] = atStart.contentDir[d]
           /\ (d \in DOMAIN assetsDir) = (d \in DOMAIN atStart.assetsDir)
           /\ d \in DOMAIN assetsDir => assetsDir[d] = atStart.assetsDir[d]

\* C22 witness: a run with --before has ended after creating a content file,
\* and the remote list holds a record that --before excludes
C22_Witness ==
  /\ pc = "exit"
  /\ exitCode = 0
  /\ argv.before # Null
  /\ created > 0
  /\ \E r \in Range(AllRecords(remote)) :
        /\ Excluded(r)
        /\ r \in Range(rawVideos)

\* The operations on a content file
ContentOps == {"readFileSync", "writeFileSync", "console.error"}

\* The normalised record of a remote id
VideoOf(id) == videos[CHOOSE n \in 1..Len(videos) : videos[n].videoId = id]

\* C23 -- Per-record ordering: for every processed record the step that
\* ensures its thumbnail (download or skip) completes before its content file
\* is created or updated: no content file is read or written while its
\* record's thumbnail step is still pending.
C23_ThumbnailBeforeContent ==
  \A k \in 1..Len(log) :
     log[k].op \in ContentOps =>
        /\ \A j \in 1..Len(log) :
              log[j].op = "download" /\ log[j].id = log[k].id =>
                 j < k /\ log[j].res = "200"
        /\ VideoOf(log[k].id).thumbnail # <<>> =>
              /\ VideoOf(log[k].id).localThumbnail # Undefined
              /\ VideoOf(log[k].id).date \in DOMAIN assetsDir

\* C23 witness: a content file has been created for a record whose thumbnail
\* was downloaded in this run
C23_Witness ==
  /\ last.op = "create"
  /\ \E j \in 1..Len(log) :
        /\ log[j].op = "download"
        /\ log[j].id = last.video
        /\ log[j].res = "200"
        /\ log[Len(log)] = Entry("writeFileSync", last.path, "create", last.video)
        /\ j < Len(log)

\* The attribute lines of a block that hold a key
KeyLines(yaml, key) == {k \in 1..Len(yaml) : LineHasKey(yaml[k], key)}

\* C24 -- Update postcondition: after updateEpisodeFile returns 'updated' or
\* 'unchanged', the attributes block holds a title, a date, a twitchUrl and a
\* thumbnail line with exactly the values createEpisodeFile would write for
\* the record; a key that was present keeps its position and a key that was
\* absent is appended at the end of the block.
C24_UpdatePostcondition ==
  UpdatedParsedFile =>
     LET before == MatchYaml(last.before)
         after == MatchYaml(last.after)
     IN /\ FrontmatterMatches(last.after)
        /\ contentDir[last.path] = last.after
        /\ \A key \in SyncedKeys :
              IF KeyLines(before, key) # {}
              THEN LET p == CHOOSE k \in KeyLines(before, key) :
                              \A j \in KeyLines(before, key) : k <= j
                   IN /\ p <= Len(after)
                      /\ after[p] = SyncedLine(key, LastVideo)
              ELSE \E k \in (Len(before) + 1)..Len(after) :
                      after[k] = SyncedLine(key, LastVideo)

\* C25 -- Create-then-update fixpoint: updateEpisodeFile, called with a
\* record on the file createEpisodeFile just wrote for that record, returns
\* 'unchanged' and performs no write.
C25_CreateThenUpdateFixpoint ==
  (last.op = "update" /\ last.before = createdContent(LastVideo)) =>
     /\ last.result = "unchanged"
     /\ ~last.wrote
     /\ contentDir[last.path] = createdContent(LastVideo)
     /\ \A k \in 1..Len(log) : log[k].op # "writeFileSync"

\* The first run has ended with exit code 0 on directories it found empty
FirstRunFromEmpty ==
  /\ run = 1
  /\ pc = "exit"
  /\ exitCode = 0
  /\ Len(log) > 0
  /\ atStart = [contentDir |-> EmptyDir, assetsDir |-> EmptyDir]

\* The content file holds the title, date and twitchUrl of remote record r
ContentFrom(file, r) ==
  /\ FrontmatterMatches(file)
  /\ \E k \in 1..Len(MatchYaml(file)) :
        MatchYaml(file)[k] = <<"title", ":", " ">> \o yamlDoubleQuote(r.title)
  /\ \E k \in 1..Len(MatchYaml(file)) :
        MatchYaml(file)[k] = <<"date", ":", " ", "\"">>
                               \o toEasternDateTime(r.created_at) \o <<"\"">>
  /\ \E k \in 1..Len(MatchYaml(file)) :
        MatchYaml(file)[k] = <<"twitchUrl", ":", " ">> \o yamlDoubleQuote(r.url)

\* The image is the one remote record r points to, at the fixed resolution
ImageFrom(image, r) ==
  /\ r.thumbnail_url # <<>>
  /\ image = <<"https://cdn/", Digits[r.id + 1], "-", "1280x720", ".jpg">>

\* C26 -- Same-record coherence: after a successful run that starts with
\* empty content and asset directories, for every civil date d that has
\* processed records, the title, date and twitchUrl in d.md and the image
\* stored at d.jpg come from the same remote record, also when several
\* remote records share the civil date d.
C26_SameRecordCoherence ==
  FirstRunFromEmpty =>
     \A d \in DOMAIN contentDir \cap DOMAIN assetsDir :
        \E r \in Range(rawVideos) :
           /\ toEasternDate(r.created_at) = d
           /\ ContentFrom(contentDir[d], r)
           /\ ImageFrom(assetsDir[d], r)

\* The value of the first thumbnail line of a content file's attributes block
ThumbnailAttribute(file) ==
  LET yaml == MatchYaml(file)
      p == CHOOSE k \in KeyLines(yaml, "thumbnail") :
             \A j \in KeyLines(yaml, "thumbnail") : k <= j
  IN SubSeq(yaml[p], 4, Len(yaml[p]))

\* C27 -- Thumbnail reference validity: after a run that exits with code 0,
\* every content file created or updated in that run has a thumbnail
\* attribute equal to ../../assets/episodes/d.jpg for its civil date d, and a
\* file exists at that asset path; also for a record whose thumbnail URL
\* template is empty.
C27_ThumbnailReferenceValid ==
  (pc = "exit" /\ exitCode = 0) =>
     \A k \in 1..Len(log) :
        log[k].op = "writeFileSync" =>
           LET d == log[k].arg
           IN /\ d \in DOMAIN contentDir
              /\ FrontmatterMatches(contentDir[d])
              /\ KeyLines(MatchYaml(contentDir[d]), "thumbnail") # {}
              /\ ThumbnailAttribute(contentDir[d])
                   = <<"../../assets/episodes/">> \o d \o <<".jpg">>
              /\ d \in DOMAIN assetsDir

\* The downloads of this run that failed
FailedDownloads == {k \in 1..Len(log) : log[k].op = "download" /\ log[k].res # "200"}

\* The thumbnail step is over for every processed record
ThumbnailLoopDone ==
  \A n \in 1..Len(videos) :
     videos[n].thumbnail = <<>> \/ videos[n].localThumbnail # Undefined

\* C28 -- All thumbnails before any content file: no content file is created
\* or modified until the thumbnail step has completed for every processed
\* record; a run in which a thumbnail download fails creates and modifies no
\* content file at all, while the thumbnails downloaded earlier in that run
\* remain on disk.
C28_AllThumbnailsFirst ==
  /\ pc = "thumbnails" => contentDir = atStart.contentDir
  /\ (LogOps(ContentOps) # {} \/ contentDir # atStart.contentDir) =>
        /\ ThumbnailLoopDone
        /\ FailedDownloads = {}
        /\ \A k \in LogOps({"download"}), j \in LogOps(ContentOps) : k < j
  /\ FailedDownloads # {} =>
        /\ pc = "exit"
        /\ exitCode = 1
        /\ contentDir = atStart.contentDir
        /\ LogOps(ContentOps) = {}
        /\ \A k \in LogOps({"download"}) :
              log[k].res = "200" =>
                 /\ log[k].arg \in DOMAIN assetsDir
                 /\ \E j \in LogOps({"download"}) :
                       /\ log[j].arg = log[k].arg
                       /\ log[j].res = "200"
                       /\ ImageFrom(assetsDir[log[k].arg], RecordOf(log[j].id))

\* C28 witness: the second download of a run has failed after the first one
\* succeeded; the first image is on disk and no content file was touched
C28_Witness ==
  /\ pc = "exit"
  /\ exitCode = 1
  /\ Cardinality(LogOps({"download"})) = 2
  /\ Cardinality(FailedDownloads) = 1
  /\ log[Len(log)].op = "download"
  /\ log[Len(log)].res = "404"
  /\ \E k \in LogOps({"download"}) :
        /\ log[k].res = "200"
        /\ log[k].arg \in DOMAIN assetsDir
        /\ log[k].arg \notin DOMAIN atStart.assetsDir
  /\ contentDir = atStart.contentDir

\* The run has printed its summary
SummaryPrinted == pc = "exit" /\ exitCode = 0 /\ Len(log) > 0

\* The files this run skipped for want of an attributes block
SkippedFiles == {k \in 1..Len(log) : log[k].op = "console.error" /\ log[k].res = "Warning"}

\* C29 -- Run summary accounting: in every run that reaches the summary,
\* created + updated + unchanged + (files skipped for parse errors) equals
\* the number of records that passed the date filters, and the reported
\* fetched count equals the number of records fetchAllVideos returned, which
\* is never less than the number processed.
C29_SummaryAccounting ==
  SummaryPrinted =>
     /\ SummaryLine.created + SummaryLine.updated + SummaryLine.unchanged
           + Cardinality(SkippedFiles)
          = Len(SelectSeq(rawVideos, LAMBDA r : ~Excluded(r)))
     /\ Len(videos) = Len(SelectSeq(rawVideos, LAMBDA r : ~Excluded(r)))
     /\ SummaryLine.fetched = Len(rawVideos)
     /\ SummaryLine.fetched >= Len(videos)
     /\ SummaryLine.created
          = Cardinality({k \in 1..Len(log) :
                           log[k].op = "writeFileSync" /\ log[k].res = "create"})
     /\ SummaryLine.updated
          = Cardinality({k \in 1..Len(log) :
                           log[k].op = "writeFileSync" /\ log[k].res = "update"})

\* C29 witness: a summary after a run that fetched more records than it
\* processed and that skipped a file
C29_Witness ==
  /\ SummaryPrinted
  /\ SummaryLine.fetched > Len(videos)
  /\ Cardinality(SkippedFiles) > 0
  /\ SummaryLine.created + SummaryLine.updated + SummaryLine.unchanged > 0

\* The successful downloads of this run to path d before log position k
EarlierDownloads(d, k) ==
  {j \in 1..(k - 1) : log[j].op = "download" /\ log[j].arg = d /\ log[j].res = "200"}

\* C30 -- A failed thumbnail download leaves the target path as it was: when
\* the response status is not 200 no file is opened, so no file is created at
\* d.jpg if none existed, and under --force a d.jpg that existed keeps its
\* content.
C30_FailedDownloadLeavesFile ==
  \A k \in FailedDownloads :
     LET d == log[k].arg
     IN IF EarlierDownloads(d, k) # {}
        THEN LET j == CHOOSE j \in EarlierDownloads(d, k) :
                        \A n \in EarlierDownloads(d, k) : n <= j
             IN /\ d \in DOMAIN assetsDir
                /\ ImageFrom(assetsDir[d], RecordOf(log[j].id))
        ELSE /\ (d \in DOMAIN assetsDir) = (d \in DOMAIN atStart.assetsDir)
             /\ d \in DOMAIN assetsDir => assetsDir[d] = atStart.assetsDir[d]

\* C30 witness: under --force the download for an image that was in place has
\* failed, and the image is the one the run found
C30_Witness ==
  /\ argv.force
  /\ last.op = "thumbnail"
  /\ last.requested
  /\ last.status = 404
  /\ last.existed
  /\ last.path \in DOMAIN atStart.assetsDir
  /\ assetsDir[last.path] = atStart.assetsDir[last.path]
  /\ pc = "exit"
  /\ exitCode = 1
====
